---- MODULE Spec2Model ----
(***************************************************************************)
(* Verification model of the encoding pipeline:                            *)
(*   - Pipeline (regression_pipeline.py): fit / compute over a task graph  *)
(*   - Transformer (data_transformation.py): scaling dispatch and          *)
(*     regressor construction                                              *)
(* The Task class is imported by regression_pipeline.py (from task import  *)
(* Task) and is modelled from its documented contract.                     *)
(***************************************************************************)
EXTENDS Integers, Sequences, FiniteSets, TLC

\* ------------------------------------------------------------------------
\* Bounds of the model
\* ------------------------------------------------------------------------
NTasks == 6     \* task objects
MaxWired == 4   \* tasks of a graph wired one dependency at a time
MaxDeps == 4    \* registered dependencies
MaxCalls == 2   \* fit/compute calls on the pipeline
MaxComputes == 2  \* compute calls on one fitted order
MaxTrain == 2   \* matrices in X_train
MaxTest == 1    \* matrices in X_test

Tasks == 1 .. NTasks

VARIABLES
    parents,      \* Task.parents: per task, the registered input dependencies
    children,     \* Task.children: per task, the registered dependents
    terminated,   \* Task.terminated
    ntasks,       \* number of Task objects constructed so far (tasks 1 .. ntasks)
    hasTasks,     \* whether the Pipeline object has the attribute self.tasks
    tasks,        \* Pipeline.tasks, the fitted order
    queue,        \* fit: local work queue
    count,        \* fit: local retry budget
    pc,           \* position of the caller: "idle", "fit", "compute"
    errors,       \* number of "Loop detected" errors logged by the running/last fit
    fittedMsg,    \* the last fit logged "The pipeline was fitted without error."
    execIdx,      \* compute: index of the next task of the for loop
    execLog,      \* tasks whose execute() ran in the running/last compute, in order
    execWaiting,  \* tasks whose execute() was called while is_waiting() was true
    warned,       \* the last compute logged "Pipeline not fitted..."
    outcome,      \* how the last compute ended
    nsynth,       \* number of synthetic input tasks created by compute so far
    root,         \* argument of the running/last fit (0: fit never called)
    calls,        \* number of fit/compute calls started
    cfg,          \* the Transformer's configuration (set by __init__)
    bucket,       \* Transformer.bucket
    tcall,        \* the last call on the Transformer: arguments and outcome
    tprev,        \* the call before it
    ucall,        \* the last call of a function outside fit/compute/scale
    uprev         \* the call before it

graphVars == <<parents, children, ntasks>>
fitVars == <<hasTasks, tasks, queue, count, errors, fittedMsg, root>>
compVars == <<execIdx, execLog, execWaiting, warned, outcome, nsynth>>

pvars == <<graphVars, terminated, fitVars, compVars, pc, calls>>

tvars == <<cfg, bucket, tcall, tprev>>

uvars == <<ucall, uprev>>

vars == <<pvars, tvars, uvars>>

\* ------------------------------------------------------------------------
\* Sequence helpers
\* ------------------------------------------------------------------------
Range(s) == { s[i] : i \in 1 .. Len(s) }

\* Python list.pop(): removes and returns the LAST element
PopValue(s) == s[Len(s)]
PopRest(s) == SubSeq(s, 1, Len(s) - 1)

\* ------------------------------------------------------------------------
\* Task (contract of section 4.1; the class itself is imported)
\* ------------------------------------------------------------------------
\* Identifier of the n-th synthetic input task created by compute (Task())
Synth(n) == NTasks + n

\* Task.is_terminated; a synthetic input task is set terminated at creation
\* (regression_pipeline.py line 91) and never reset
is_terminated(t) == IF t \in Tasks THEN terminated[t] ELSE TRUE

\* Task.is_waiting: at least one parent is not yet terminated
is_waiting(t) == \E i \in 1 .. Len(parents[t]) : ~ is_terminated(parents[t][i])

\* number of registered (parent, child) pairs among the tasks
NumDeps == LET RECURSIVE Sum(_)
               Sum(S) == IF S = {} THEN 0
                         ELSE LET t == CHOOSE x \in S : TRUE
                              IN Len(children[t]) + Sum(S \ {t})
           IN Sum(Tasks)

\* child.add_input_dependency(parent): registers parent as a parent of child
\* and child as a child of parent; idempotent for a registered pair
add_input_dependency(child, parent) ==
    /\ parents' = [parents EXCEPT ![child] =
                      IF parent \in Range(@) THEN @ ELSE Append(@, parent)]
    /\ children' = IF parent \in Tasks
                   THEN [children EXCEPT ![parent] =
                            IF child \in Range(@) THEN @ ELSE Append(@, child)]
                   ELSE children

Max(a, b) == IF a >= b THEN a ELSE b

\* Pipeline definition surface: the caller wires two tasks, before the
\* pipeline is used. Tasks are numbered in the order they are constructed,
\* and a task is constructed when it is first wired (the parent first).
AddDependency(child, parent) ==
    /\ UNCHANGED <<tvars, uvars>>
    /\ pc = "idle"
    /\ calls = 0
    /\ child # parent
    /\ parent <= ntasks + 1
    /\ child <= Max(ntasks, parent) + 1
    /\ child \notin Range(children[parent])
    /\ NumDeps < MaxDeps
    /\ add_input_dependency(child, parent)
    /\ ntasks' = Max(ntasks, Max(child, parent))
    /\ UNCHANGED <<terminated, fitVars, compVars, pc, calls>>

\* ------------------------------------------------------------------------
\* Pipeline.fit
\* ------------------------------------------------------------------------
\* outcome of compute when no compute has ended since the last fit began
NoOutcome == [kind |-> "none", task |-> 0]

\* lines 55-57: self.tasks = []; queue = [task]; count = 1
FitBegin(task) ==
    /\ UNCHANGED <<tvars, uvars>>
    /\ pc = "idle"
    /\ calls < MaxCalls
    /\ calls' = calls + 1
    /\ pc' = "fit"
    /\ root' = task
    /\ hasTasks' = TRUE
    /\ tasks' = << >>
    /\ queue' = << task >>
    /\ count' = 1
    /\ errors' = 0
    /\ fittedMsg' = FALSE
    /\ execIdx' = 0
    /\ execLog' = << >>
    /\ execWaiting' = {}
    /\ warned' = FALSE
    /\ outcome' = NoOutcome
    /\ UNCHANGED <<graphVars, terminated, nsynth>>

\* lines 59-62: the popped task is not terminated and waiting, and the budget
\* is zero: the error is logged and the task is not put back
FitCycleError ==
    /\ UNCHANGED <<tvars, uvars>>
    /\ pc = "fit" /\ queue # << >>
    /\ LET task == PopValue(queue) IN
         /\ ~ is_terminated(task) /\ is_waiting(task)
         /\ count = 0
    /\ errors' = errors + 1
    /\ queue' = PopRest(queue)
    /\ UNCHANGED <<graphVars, terminated, hasTasks, tasks, count, fittedMsg,
                   root, compVars, pc, calls>>

\* line 64: queue = [task] + queue
RequeueQueue(task, rest) == << task >> \o rest

RequeueCountKept(c) == c

\* line 65: count -= 1
RequeueCount(c) == c - 1

\* lines 59-60, 63-65: the popped task is waiting and budget is left
FitRequeue ==
    /\ UNCHANGED <<tvars, uvars>>
    /\ pc = "fit" /\ queue # << >>
    /\ LET task == PopValue(queue) IN
         /\ ~ is_terminated(task) /\ is_waiting(task)
         /\ count # 0
         /\ queue' = RequeueQueue(task, PopRest(queue))
    /\ count' = RequeueCount(count)
    /\ UNCHANGED <<graphVars, terminated, hasTasks, tasks, errors, fittedMsg,
                   root, compVars, pc, calls>>

ScheduleQueueSkipFirst(task, rest) ==
    IF children[task] = << >> THEN rest ELSE Tail(children[task]) \o rest

\* line 69: queue = task.children + queue
ScheduleQueue(task, rest) == children[task] \o rest

\* lines 66-70: the popped task is ready: append, mark, enqueue its children
FitSchedule ==
    /\ UNCHANGED <<tvars, uvars>>
    /\ pc = "fit" /\ queue # << >>
    /\ LET task == PopValue(queue) IN
         /\ ~ (~ is_terminated(task) /\ is_waiting(task))
         /\ ~ is_terminated(task)
         /\ tasks' = Append(tasks, task)
         /\ terminated' = [terminated EXCEPT ![task] = TRUE]
         /\ queue' = ScheduleQueue(task, PopRest(queue))
         /\ count' = count + Len(children[task])
    /\ UNCHANGED <<graphVars, hasTasks, errors, fittedMsg, root, compVars,
                   pc, calls>>

\* lines 59-66, neither branch: the popped task is already terminated
FitDrop ==
    /\ UNCHANGED <<tvars, uvars>>
    /\ pc = "fit" /\ queue # << >>
    /\ is_terminated(PopValue(queue))
    /\ queue' = PopRest(queue)
    /\ UNCHANGED <<graphVars, terminated, hasTasks, tasks, count, errors,
                   fittedMsg, root, compVars, pc, calls>>

reset_tasks_skip_first(term, order) ==
    [t \in Tasks |-> IF t \in Range(order) /\ t # order[1] THEN FALSE ELSE term[t]]

\* Pipeline.reset_tasks: every task of self.tasks gets terminated = False
reset_tasks(term, order) ==
    [t \in Tasks |-> IF t \in Range(order) THEN FALSE ELSE term[t]]

\* lines 58, 71-72: the queue is empty: reset_tasks(), log, return
FitReturn ==
    /\ UNCHANGED <<tvars, uvars>>
    /\ pc = "fit" /\ queue = << >>
    /\ terminated' = reset_tasks(terminated, tasks)
    /\ fittedMsg' = TRUE
    /\ pc' = "idle"
    /\ UNCHANGED <<graphVars, hasTasks, tasks, queue, count, errors, root,
                   compVars, calls>>

\* ------------------------------------------------------------------------
\* Pipeline.compute
\* ------------------------------------------------------------------------
\* line 86 on an object that has no attribute self.tasks (__init__ is "pass",
\* lines 26-27): the attribute lookup raises AttributeError
ComputeUnfitted ==
    /\ UNCHANGED <<tvars, uvars>>
    /\ pc = "idle"
    /\ calls < MaxCalls
    /\ ~ hasTasks
    /\ calls' = calls + 1
    /\ execIdx' = 0
    /\ execLog' = << >>
    /\ execWaiting' = {}
    /\ warned' = FALSE
    /\ outcome' = [kind |-> "AttributeError", task |-> 0]
    /\ UNCHANGED <<graphVars, terminated, fitVars, nsynth, pc>>

\* lines 86-87, 100-101 with self.tasks == []: the warning is logged, then
\* "return task.output" reads the loop variable task, which was never bound
ComputeEmpty ==
    /\ UNCHANGED <<tvars, uvars>>
    /\ pc = "idle"
    /\ calls < MaxCalls
    /\ hasTasks /\ tasks = << >>
    /\ calls' = calls + 1
    /\ execIdx' = 0
    /\ execLog' = << >>
    /\ execWaiting' = {}
    /\ warned' = TRUE
    /\ outcome' = [kind |-> "UnboundLocalError", task |-> 0]
    /\ UNCHANGED <<graphVars, terminated, fitVars, nsynth, pc>>

\* lines 86, 89-92: a new terminated Task carrying the inputs becomes an input
\* dependency of self.tasks[0]
ComputeStart ==
    /\ UNCHANGED <<tvars, uvars>>
    /\ pc = "idle"
    /\ hasTasks /\ tasks # << >>
    /\ calls' = calls + 1
    /\ nsynth' = nsynth + 1
    /\ add_input_dependency(tasks[1], Synth(nsynth + 1))
    /\ UNCHANGED ntasks
    /\ execIdx' = 1
    /\ execLog' = << >>
    /\ execWaiting' = {}
    /\ warned' = FALSE
    /\ outcome' = NoOutcome
    /\ pc' = "compute"
    /\ UNCHANGED <<terminated, fitVars>>

ComputeBegin == calls < MaxCalls /\ ComputeStart

\* compute called again on the order it has just run
ComputeAgain ==
    /\ outcome.kind = "returned"
    /\ nsynth < MaxComputes
    /\ ComputeStart

\* Task.execute (contract of section 4.1): runs the operation on the parents'
\* outputs and stores the result; it leaves the terminated flag to the caller
execute(task) ==
    /\ execLog' = Append(execLog, task)
    /\ execWaiting' = IF is_waiting(task) THEN execWaiting \cup {task}
                      ELSE execWaiting
    /\ UNCHANGED terminated

\* lines 93-96: one iteration of the for loop
ComputeExecute ==
    /\ UNCHANGED <<tvars, uvars>>
    /\ pc = "compute"
    /\ execIdx <= Len(tasks)
    /\ execute(tasks[execIdx])
    /\ execIdx' = execIdx + 1
    /\ UNCHANGED <<graphVars, fitVars, warned, outcome, nsynth, pc, calls>>

\* lines 100-101: after the loop, log and return the last task's output
ComputeReturn ==
    /\ UNCHANGED <<tvars, uvars>>
    /\ pc = "compute"
    /\ execIdx > Len(tasks)
    /\ outcome' = [kind |-> "returned", task |-> tasks[Len(tasks)]]
    /\ pc' = "idle"
    /\ UNCHANGED <<graphVars, terminated, fitVars, execIdx, execLog,
                   execWaiting, warned, nsynth, calls>>

\* ========================================================================
\* Transformer (data_transformation.py)
\* ========================================================================
\* Numbers are exact rationals <<n, d>> with d > 0 in lowest terms; d = 0
\* stands for the non-finite results of a division by zero:
\* <<0, 0>> nan, <<1, 0>> inf, <<-1, 0>> -inf.
Abs(n) == IF n < 0 THEN 0 - n ELSE n

Sign(n) == IF n < 0 THEN 0 - 1 ELSE IF n > 0 THEN 1 ELSE 0

RECURSIVE Gcd(_, _)
Gcd(a, b) == IF b = 0 THEN a ELSE Gcd(b, a % b)

Q(n, d) ==
    IF d = 0 THEN << Sign(n), 0 >>
    ELSE LET g == Gcd(Abs(n), Abs(d))
         IN << Sign(d) * (n \div g), Abs(d) \div g >>

QInt(n) == << n, 1 >>
QNaN == << 0, 0 >>
IsNaN(x) == x = QNaN
QAdd(x, y) == Q(x[1] * y[2] + y[1] * x[2], x[2] * y[2])
QSub(x, y) == Q(x[1] * y[2] - y[1] * x[2], x[2] * y[2])
QMul(x, y) == Q(x[1] * y[1], x[2] * y[2])
QDiv(x, y) == Q(x[1] * y[2], x[2] * y[1])
QAbs(x) == << Abs(x[1]), x[2] >>
QLess(x, y) == x[1] * y[2] < y[1] * x[2]
QMax(x, y) == IF QLess(x, y) THEN y ELSE x

\* exact square root of a rational that is a square
ISqrt(n) == CHOOSE k \in 0 .. n : k * k = n
QSqrt(x) == << ISqrt(x[1]), ISqrt(x[2]) >>

RECURSIVE QSum(_)
QSum(s) == IF s = << >> THEN QInt(0) ELSE QAdd(Head(s), QSum(Tail(s)))

RECURSIVE QMaxOf(_)
QMaxOf(s) == IF Len(s) = 1 THEN s[1] ELSE QMax(Head(s), QMaxOf(Tail(s)))

\* np.mean of a vector
QMean(s) == QDiv(QSum(s), QInt(Len(s)))

\* A matrix is a sequence of rows, all of the same length
NRows(M) == Len(M)
NCols(M) == IF M = << >> THEN 0 ELSE Len(M[1])
Column(M, c) == [r \in 1 .. Len(M) |-> M[r][c]]

\* X[:, indexes] with 0-based column indexes
Slice(M, indexes) ==
    [r \in 1 .. Len(M) |-> [k \in 1 .. Len(indexes) |-> M[r][indexes[k] + 1]]]

RECURSIVE Flatten(_)
Flatten(ss) == IF ss = << >> THEN << >> ELSE Head(ss) \o Flatten(Tail(ss))

\* ------------------------------------------------------------------------
\* sklearn.preprocessing.StandardScaler as used on lines 139-141, 156-158
\* and 175-177: per-column mean and population standard deviation of the
\* fitted matrix; a zero standard deviation scales by 1
\* ------------------------------------------------------------------------
ColMean(M, c) == QMean(Column(M, c))

ColStd(M, c) ==
    LET mu == ColMean(M, c)
        sq == [r \in 1 .. Len(M) |->
                  QMul(QSub(M[r][c], mu), QSub(M[r][c], mu))]
        sd == QSqrt(QMean(sq))
    IN IF sd = QInt(0) THEN QInt(1) ELSE sd

ScalerFit(M, with_mean, with_std) ==
    [with_mean |-> with_mean,
     with_std |-> with_std,
     mean |-> [c \in 1 .. NCols(M) |-> ColMean(M, c)],
     scale |-> [c \in 1 .. NCols(M) |->
                   IF with_std THEN ColStd(M, c) ELSE QInt(1)]]

ScalerTransform(sc, M) ==
    [r \in 1 .. Len(M) |-> [c \in 1 .. NCols(M) |->
        LET x == IF sc.with_mean THEN QSub(M[r][c], sc.mean[c]) ELSE M[r][c]
        IN IF sc.with_std THEN QDiv(x, sc.scale[c]) ELSE x]]

\* ------------------------------------------------------------------------
\* The split of lines 142, 159, 179 and 200:
\*   matrices[:-len(X_test)] and matrices[-len(X_test):]
\* A Python slice bound -n counts from the end when n > 0; -0 is 0.
\* ------------------------------------------------------------------------
SliceBound(n, len) == IF n > 0 THEN Max(len - n, 0) ELSE 0

SplitTrain(matrices, X_test) ==
    SubSeq(matrices, 1, SliceBound(Len(X_test), Len(matrices)))

SplitTest(matrices, X_test) ==
    SubSeq(matrices, SliceBound(Len(X_test), Len(matrices)) + 1, Len(matrices))

SplitResult(matrices, X_test) ==
    [X_train |-> SplitTrain(matrices, X_test),
     X_test |-> SplitTest(matrices, X_test)]

\* ------------------------------------------------------------------------
\* Transformer.standardize, lines 137-143
\* ------------------------------------------------------------------------
StandardizeFitFirst(matrices, index) == matrices[1]

\* line 140: scaler.fit(matrices[index])
StandardizeFitOn(matrices, index) == matrices[index]

standardize(X_train, X_test, with_mean, with_std) ==
    LET matrices == X_train \o X_test
        out == [index \in 1 .. Len(matrices) |->
                   ScalerTransform(
                       ScalerFit(StandardizeFitOn(matrices, index),
                                 with_mean, with_std),
                       matrices[index])]
    IN SplitResult(out, X_test)

\* ------------------------------------------------------------------------
\* Transformer.identity, lines 153-160
\* ------------------------------------------------------------------------
identity(X_train, X_test, centering) ==
    LET matrices == X_train \o X_test
        out == IF centering
               THEN [index \in 1 .. Len(matrices) |->
                        ScalerTransform(
                            ScalerFit(matrices[index], centering, FALSE),
                            matrices[index])]
               ELSE matrices
    IN SplitResult(out, X_test)

\* ------------------------------------------------------------------------
\* Transformer.normalize, lines 173-180
\* ------------------------------------------------------------------------
\* la.norm(vector, ord=order) for the orders 1 and inf
VectorNorm(v, order) ==
    LET a == [k \in 1 .. Len(v) |-> QAbs(v[k])]
    IN IF order = "1" THEN QSum(a) ELSE QMaxOf(a)

\* la.norm(M, ord=order, axis=scaling_axis): axis 1 gives one norm per row,
\* axis 0 one norm per column
AxisNorms(M, order, scaling_axis) ==
    IF scaling_axis = 1
    THEN [r \in 1 .. NRows(M) |-> VectorNorm(M[r], order)]
    ELSE [c \in 1 .. NCols(M) |-> VectorNorm(Column(M, c), order)]

\* line 178: matrix / np.mean(la.norm(...))
NormalizeMatrix(M, order, scaling_axis) ==
    LET denom == QMean(AxisNorms(M, order, scaling_axis))
    IN [r \in 1 .. NRows(M) |-> [c \in 1 .. NCols(M) |-> QDiv(M[r][c], denom)]]

normalize(X_train, X_test, order, centering, scaling_axis) ==
    LET matrices == X_train \o X_test
        out == [index \in 1 .. Len(matrices) |->
                   NormalizeMatrix(
                       ScalerTransform(
                           ScalerFit(matrices[index], centering, FALSE),
                           matrices[index]),
                       order, scaling_axis)]
    IN SplitResult(out, X_test)

\* ------------------------------------------------------------------------
\* Transformer.scale, lines 112-127
\* ------------------------------------------------------------------------
\* the callables of a Transformer that scale takes as scaling functions
ScalingFunctions == {"identity", "standardize", "normalize"}

\* pd.concat([pd.DataFrame(m) for m in blocks], axis=1).values: the blocks
\* side by side, aligned on the row number; a block with fewer rows is
\* filled with NaN
HConcat(blocks) ==
    LET rows == IF blocks = << >> THEN 0
                ELSE CHOOSE n \in { NRows(blocks[k]) : k \in 1 .. Len(blocks) } :
                        \A k \in 1 .. Len(blocks) : NRows(blocks[k]) <= n
    IN [r \in 1 .. rows |->
           Flatten([k \in 1 .. Len(blocks) |->
                       IF r <= NRows(blocks[k]) THEN blocks[k][r]
                       ELSE [c \in 1 .. NCols(blocks[k]) |-> QNaN]])]

\* lines 113-122 for one model: the call func(**filter_args(func, {...})).
\* filter_args (utils.py lines 194-195) keeps the keys the function declares.
CallScaling(self, index, X_train, X_test) ==
    LET type == self.scaling_types[index]
        X_train_ == [k \in 1 .. Len(X_train) |-> Slice(X_train[k], self.indexes[index])]
        X_test_ == [k \in 1 .. Len(X_test) |-> Slice(X_test[k], self.indexes[index])]
        centering == self.centering[index]
        order == self.order[index]
    IN [fn |-> type,
        centering |-> centering,
        X_train |-> X_train_,
        X_test |-> X_test_,
        result |-> IF type = "identity" THEN identity(X_train_, X_test_, centering)
                   ELSE IF type = "standardize"
                   THEN standardize(X_train_, X_test_, self.with_mean, self.with_std)
                   ELSE normalize(X_train_, X_test_, order, centering,
                                  self.scaling_axis)]

\* lines 112-122: the loop over the models, from model index on. It stops at
\* the first model whose scaling type is not an attribute of the Transformer
\* (getattr raises AttributeError); what was appended stays in the bucket.
\* the names among the configured scaling types that are attributes of a
\* Transformer: getattr (line 113) finds any attribute, the method
\* clean_bucket as well as the three scaling functions
TransformerAttributes == ScalingFunctions \cup {"clean_bucket"}

\* the value None
NoneValue == [none |-> TRUE]

\* lines 113-122 for a model whose scaling type is 'clean_bucket':
\* filter_args keeps no key (clean_bucket declares only self) and the
\* method is called without arguments. self.bucket.append is looked up
\* before the argument is evaluated: the call binds self.bucket to a new
\* empty list (line 103) and the None it returns is appended to the list
\* that was replaced, so the bucket in use is left empty.
CallCleanBucket ==
    [fn |-> "clean_bucket", centering |-> FALSE,
     X_train |-> << >>, X_test |-> << >>, result |-> NoneValue]

RECURSIVE ScaleLoop(_, _, _, _, _, _)
ScaleLoop(self, index, X_train, X_test, bkt, invs) ==
    IF index > Len(self.indexes)
    THEN [status |-> "ok", bucket |-> bkt, invs |-> invs]
    ELSE IF self.scaling_types[index] \notin TransformerAttributes
    THEN [status |-> "AttributeError", bucket |-> bkt, invs |-> invs]
    ELSE IF self.scaling_types[index] = "clean_bucket"
    THEN ScaleLoop(self, index + 1, X_train, X_test,
                   << >>, Append(invs, CallCleanBucket))
    ELSE LET inv == CallScaling(self, index, X_train, X_test)
         IN ScaleLoop(self, index + 1, X_train, X_test,
                      Append(bkt, inv.result), Append(invs, inv))

\* lines 124-125: one concatenation per entry of bucket[0]; every element of
\* the bucket contributes its matrix of that position
ConcatOk(bkt, key) ==
    \A k \in 1 .. Len(bkt) : Len(bkt[k][key]) >= Len(bkt[1][key])

ConcatBucket(bkt, key) ==
    [run_index \in 1 .. Len(bkt[1][key]) |->
        HConcat([k \in 1 .. Len(bkt) |-> bkt[k][key][run_index]])]

NoResult == [X_train |-> << >>, X_test |-> << >>]

\* lines 124-127 after the loop ended as loop: the concatenations, then
\* clean_bucket(); a failure leaves the bucket as the loop left it
ScaleFinish(loop) ==
    IF loop.status # "ok"
    THEN [status |-> loop.status, result |-> NoResult,
          bucket |-> loop.bucket, invs |-> loop.invs]
    \* line 124: self.bucket[0] on an empty bucket
    ELSE IF loop.bucket = << >>
    THEN [status |-> "IndexError", result |-> NoResult,
          bucket |-> loop.bucket, invs |-> loop.invs]
    ELSE IF ~ (ConcatOk(loop.bucket, "X_train") /\ ConcatOk(loop.bucket, "X_test"))
    THEN [status |-> "IndexError", result |-> NoResult,
          bucket |-> loop.bucket, invs |-> loop.invs]
    ELSE [status |-> "ok",
          result |-> [X_train |-> ConcatBucket(loop.bucket, "X_train"),
                      X_test |-> ConcatBucket(loop.bucket, "X_test")],
          bucket |-> << >>,   \* line 126: clean_bucket()
          invs |-> loop.invs]

\* the whole call: [status, result, bucket (afterwards), invs]
scale(self, bkt, X_train, X_test) ==
    ScaleFinish(ScaleLoop(self, 1, X_train, X_test, bkt, << >>))

\* ------------------------------------------------------------------------
\* Regressor construction, lines 182-227
\* ------------------------------------------------------------------------
\* decimal digits of a positive integer, most significant first
RECURSIVE Digits(_)
Digits(n) == IF n < 10 THEN << n >> ELSE Append(Digits(n \div 10), n % 10)

\* 'run{}'.format(n): the key "run" followed by the digits of n
RunKey(n) == Digits(n)

\* the offsets files that exist, <<offset type, run suffix>> -> number of
\* onsets in the file, and the durations files that exist, <<duration type,
\* run suffix>> -> number of rows in the file
OffsetFiles ==
    (<< "word", 1 >> :> 2) @@ (<< "word", 2 >> :> 1) @@
    (<< "char", 1 >> :> 1) @@ (<< "char", 2 >> :> 1)

DurationFiles == (<< "dur", 2 >> :> 1)

\* utils.fetch_offsets, lines 257-263: the file is looked up by the last
\* character of the run key
fetch_offsets(offset_type, run_index) ==
    LET index == run_index[Len(run_index)]
        path == << offset_type, index >>
    IN IF path \notin DOMAIN OffsetFiles
       THEN [status |-> "Exception", path |-> path, len |-> 0]
       ELSE [status |-> "ok", path |-> path, len |-> OffsetFiles[path]]

\* utils.fetch_duration, lines 275-281: np.ones(default_size) when the file
\* is missing, else the file's values, a 2-D array with one column
fetch_duration(duration_type, run_index, default_size) ==
    LET index == run_index[Len(run_index)]
        path == << duration_type, index >>
    IN IF path \notin DOMAIN DurationFiles
       THEN [from_file |-> FALSE, path |-> path, len |-> default_size]
       ELSE [from_file |-> TRUE, path |-> path, len |-> DurationFiles[path]]

\* dataframe.dropna(axis=0): the rows without a NaN
RECURSIVE DropNa(_)
DropNa(M) ==
    IF M = << >> THEN << >>
    ELSE IF \E c \in 1 .. Len(M[1]) : IsNaN(M[1][c]) THEN DropNa(Tail(M))
    ELSE << M[1] >> \o DropNa(Tail(M))

\* number of regressors nistats' compute_regressor returns per condition
HrfColumns(hrf) ==
    IF hrf = "spm" THEN 1
    ELSE IF hrf = "spm + derivative" THEN 2
    ELSE 3

\* len(np.arange(0.0, nscans * tr, tr)) for an integer tr > 0
FrameCount(nscans, tr) == (nscans * tr + tr - 1) \div tr

\* line 219: np.vstack((offsets, duration, dataframe[col])) succeeds when
\* the three have the same number of columns once made 2-D (a durations
\* file contributes rows of one column)
VStackOk(offsets, duration, nrows) ==
    IF duration.from_file
    THEN offsets.len = 1 /\ nrows = 1
    ELSE offsets.len = nrows /\ duration.len = nrows

\* line 220: nistats unpacks the conditions into exactly three rows
\* (onsets, durations, amplitudes)
UnpackOk(duration) == duration.from_file => duration.len = 1

NoMatrix == [rows |-> 0, cols |-> << >>]

\* Transformer.compute_regressor, lines 212-227. The convolution is the
\* external kernel service: an output column is described by what it was
\* computed from.
compute_regressor(self, dataframe, offset_type, duration_type, run_index) ==
    LET df == DropNa(dataframe)
        ncols == NCols(dataframe)
        offsets == fetch_offsets(offset_type, run_index)
        duration == fetch_duration(duration_type, run_index, Len(df))
    IN IF offsets.status # "ok"
       THEN [status |-> "Exception", matrix |-> NoMatrix]
       ELSE IF ~ VStackOk(offsets, duration, Len(df))
       THEN [status |-> "ValueError", matrix |-> NoMatrix]
       ELSE IF run_index \notin DOMAIN self.nscans
       THEN [status |-> "KeyError", matrix |-> NoMatrix]
       ELSE IF ~ UnpackOk(duration)
       THEN [status |-> "ValueError", matrix |-> NoMatrix]
       ELSE [status |-> "ok",
             matrix |->
                [rows |-> FrameCount(self.nscans[run_index], self.tr),
                 cols |-> Flatten([col \in 1 .. ncols |->
                            [j \in 1 .. HrfColumns(self.hrf) |->
                                [amplitudes |-> Column(df, col),
                                 onsets |-> offsets.path,
                                 durations |-> duration,
                                 frames |-> run_index,
                                 regressor |-> j]]])]]

MatrixMajorMistaken(nmatrices, nmodels) ==
    [n \in 1 .. nmatrices * nmodels |->
        << ((n - 1) % nmatrices) + 1, ((n - 1) \div nmatrices) + 1 >>]

\* line 197: "for array_index, array in enumerate(matrices_) for i, index in
\* enumerate(self.indexes)": the (matrix, model) pairs in evaluation order
MatrixMajor(nmatrices, nmodels) ==
    [n \in 1 .. nmatrices * nmodels |->
        << ((n - 1) \div nmodels) + 1, ((n - 1) % nmodels) + 1 >>]

\* np.hstack of blocks with the same number of rows
HStack(blocks) ==
    [rows |-> blocks[1].rows,
     cols |-> Flatten([k \in 1 .. Len(blocks) |-> blocks[k].cols])]

\* Transformer.make_regressor, lines 192-200
make_regressor(self, X_train, X_test, run_train, run_test) ==
    LET matrices_ == X_train \o X_test
        runs == run_train \o run_test
        step == Len(self.indexes)
        order == MatrixMajor(Len(matrices_), step)
        Key(array_index) == RunKey(runs[array_index] + 1)
        \* what stops the evaluation of the n-th element, or the block
        Block(n) ==
            LET array_index == order[n][1]
                i == order[n][2]
            IN IF array_index > Len(runs)
               THEN [status |-> "IndexError", matrix |-> NoMatrix]
               ELSE IF Key(array_index) \notin DOMAIN self.offset_type_dict
               THEN [status |-> "KeyError", matrix |-> NoMatrix]
               ELSE compute_regressor(
                        self,
                        Slice(matrices_[array_index], self.indexes[i]),
                        self.offset_type_dict[Key(array_index)][i],
                        self.duration_type_dict[Key(array_index)][i],
                        Key(array_index))
        blocks == [n \in 1 .. Len(order) |-> Block(n)]
        failed == { n \in 1 .. Len(order) : blocks[n].status # "ok" }
    IN IF failed # {}
       THEN [status |-> blocks[CHOOSE n \in failed : \A m \in failed : n <= m].status,
             result |-> NoResult]
       ELSE LET matrices ==
                    [x \in 1 .. Len(matrices_) |->
                        HStack([k \in 1 .. step |->
                                   blocks[(x - 1) * step + k].matrix])]
            IN [status |-> "ok", result |-> SplitResult(matrices, X_test)]

\* ------------------------------------------------------------------------
\* Transformer configurations and inputs
\* ------------------------------------------------------------------------
IntMatrix(M) == [r \in 1 .. Len(M) |-> [c \in 1 .. Len(M[r]) |-> QInt(M[r][c])]]

\* feature matrices of two columns, with one or two event rows
MatA == IntMatrix(<< << 1, 2 >> >>)
MatB == IntMatrix(<< << 0, 2 >>, << 2, 0 >> >>)
MatC == IntMatrix(<< << 1, 1 >>, << 3, 5 >> >>)
\* a missing value in the second column of the first row
MatD == << << QInt(1), QNaN >>, << QInt(2), QInt(3) >> >>

ScalePool == {MatA, MatB, MatC}
RegressorPool == {MatA, MatB, MatD}

SeqsUpTo(S, n) == UNION { [1 .. k -> S] : k \in 0 .. n }

\* one model's scaling settings: scaling_types[i], centering[i], order[i]
ModelKinds ==
    { [scaling_type |-> "identity", centering |-> c, order |-> "None"] :
          c \in BOOLEAN }
    \cup { [scaling_type |-> "standardize", centering |-> FALSE, order |-> "std"] }
    \cup { [scaling_type |-> "normalize", centering |-> c, order |-> o] :
          c \in BOOLEAN, o \in {"1", "inf"} }
    \cup { [scaling_type |-> t, centering |-> FALSE, order |-> "None"] :
          t \in {"bogus", "clean_bucket"} }

\* the column indexes of the models: one model of two columns, or two models
\* of one column each (utils.get_data_transformation_information, np.arange)
Partitions == { << << 0, 1 >> >>, << << 0 >>, << 1 >> >> }

NbRuns == 3

\* utils.get_data_transformation_information, lines 331-343: every run key
\* maps to the models' offset (duration) types, in model order
TypeDict(types) == [key \in { RunKey(i) : i \in 1 .. NbRuns } |-> types]

Config(indexes, kinds, scaling_axis, with_mean, with_std, hrf) ==
    [indexes |-> indexes,
     scaling_types |-> [i \in 1 .. Len(kinds) |-> kinds[i].scaling_type],
     centering |-> [i \in 1 .. Len(kinds) |-> kinds[i].centering],
     order |-> [i \in 1 .. Len(kinds) |-> kinds[i].order],
     scaling_axis |-> scaling_axis,
     with_mean |-> with_mean,
     with_std |-> with_std,
     hrf |-> hrf,
     tr |-> 2,
     nscans |-> (RunKey(1) :> 3) @@ (RunKey(2) :> 4) @@ (RunKey(3) :> 3),
     offset_type_dict |->
         TypeDict(IF Len(indexes) = 1 THEN << "word" >> ELSE << "word", "char" >>),
     duration_type_dict |->
         TypeDict([i \in 1 .. Len(indexes) |-> "dur"])]

Uses(kinds, type) == \E i \in 1 .. Len(kinds) : kinds[i].scaling_type = type

PlainKinds(kinds) ==
    \A i \in 1 .. Len(kinds) :
        kinds[i].scaling_type = "identity" /\ ~ kinds[i].centering

\* The configurations a Transformer is constructed with. A setting is varied
\* where some model reads it: scaling_axis with a normalize model, with_mean
\* and with_std with a standardize model, the kernel with plain models.
ModelSettings ==
    UNION { { [indexes |-> q, kinds |-> k] : k \in [1 .. Len(q) -> ModelKinds] } :
            q \in Partitions }

TransformerConfigs ==
    { Config(x.m.indexes, x.m.kinds, x.axis, x.wm, x.ws, x.hrf) :
        x \in { y \in [m : ModelSettings, axis : {0, 1}, wm : BOOLEAN,
                       ws : BOOLEAN, hrf : {"spm", "spm + derivative"}] :
                  /\ (y.axis = 0 => Uses(y.m.kinds, "normalize"))
                  /\ (~ (y.wm /\ y.ws) => Uses(y.m.kinds, "standardize"))
                  /\ (y.hrf # "spm" => PlainKinds(y.m.kinds)) } }

DefaultConfig ==
    Config(<< << 0, 1 >> >>,
           << [scaling_type |-> "identity", centering |-> FALSE, order |-> "None"] >>,
           1, TRUE, TRUE, "spm")

NoCall == [fn |-> "none", X_train |-> << >>, X_test |-> << >>,
           run_train |-> << >>, run_test |-> << >>,
           status |-> "none", result |-> NoResult, invs |-> << >>]

\* ------------------------------------------------------------------------
\* Calls on the Transformer
\* ------------------------------------------------------------------------
\* what a scale call that ended as r leaves behind
ScaleReturn(X_train, X_test, r) ==
    /\ bucket' = r.bucket
    /\ tcall' = [fn |-> "scale", X_train |-> X_train, X_test |-> X_test,
                 run_train |-> << >>, run_test |-> << >>,
                 status |-> r.status, result |-> r.result, invs |-> r.invs]

ScaleCall(X_train, X_test) ==
    ScaleReturn(X_train, X_test, scale(cfg, bucket, X_train, X_test))

\* the first scale call on a Transformer
Scale(X_train, X_test) ==
    /\ tcall.fn = "none"
    /\ ScaleCall(X_train, X_test)
    /\ tprev' = tcall
    /\ UNCHANGED <<cfg, pvars, uvars>>

\* the next scale call: the same lists with one matrix replaced
ScaleAgain(j, M) ==
    /\ tcall.fn = "scale" /\ tprev.fn = "none"
    /\ j \in 1 .. Len(tcall.X_train) + Len(tcall.X_test)
    /\ LET flat == [ (tcall.X_train \o tcall.X_test) EXCEPT ![j] = M ]
       IN ScaleCall(SubSeq(flat, 1, Len(tcall.X_train)),
                    SubSeq(flat, Len(tcall.X_train) + 1, Len(flat)))
    /\ tprev' = tcall
    /\ UNCHANGED <<cfg, pvars, uvars>>

\* what a make_regressor call that ended as r leaves behind
RegressorReturn(X_train, X_test, run_train, run_test, r) ==
    tcall' = [fn |-> "make_regressor",
              X_train |-> X_train, X_test |-> X_test,
              run_train |-> run_train, run_test |-> run_test,
              status |-> r.status, result |-> r.result, invs |-> << >>]

MakeRegressor(X_train, X_test, run_train, run_test) ==
    /\ tcall.fn = "none"
    /\ RegressorReturn(X_train, X_test, run_train, run_test,
                       make_regressor(cfg, X_train, X_test, run_train, run_test))
    /\ tprev' = tcall
    /\ UNCHANGED <<cfg, bucket, pvars, uvars>>

TInit ==
    /\ cfg \in TransformerConfigs
    /\ bucket = << >>   \* line 98
    /\ tcall = NoCall
    /\ tprev = NoCall

\* the Transformer of the pipeline specification: constructed, not called
TQuiet ==
    /\ cfg = DefaultConfig
    /\ bucket = << >>
    /\ tcall = NoCall
    /\ tprev = NoCall

RunIds == 0 .. NbRuns - 1

TNext ==
    \/ \E X_train \in SeqsUpTo(ScalePool, MaxTrain),
          X_test \in SeqsUpTo(ScalePool, MaxTest) : Scale(X_train, X_test)
    \/ \E j \in 1 .. MaxTrain + MaxTest, M \in ScalePool : ScaleAgain(j, M)
    \/ \E X_train \in SeqsUpTo(RegressorPool, MaxTrain),
          X_test \in SeqsUpTo(RegressorPool, MaxTest) :
          \E run_train \in [1 .. Len(X_train) -> RunIds],
             run_test \in [1 .. Len(X_test) -> RunIds] :
             MakeRegressor(X_train, X_test, run_train, run_test)

\* ------------------------------------------------------------------------
\* Init / Next
\* ------------------------------------------------------------------------
\* a Pipeline as constructed, and tasks as constructed
PQuiet ==
    /\ terminated = [t \in Tasks |-> FALSE]
    /\ hasTasks = FALSE
    /\ tasks = << >>
    /\ queue = << >>
    /\ count = 0
    /\ pc = "idle"
    /\ errors = 0
    /\ fittedMsg = FALSE
    /\ execIdx = 0
    /\ execLog = << >>
    /\ execWaiting = {}
    /\ warned = FALSE
    /\ outcome = NoOutcome
    /\ nsynth = 0
    /\ root = 0
    /\ calls = 0

PInit ==
    /\ parents = [t \in Tasks |-> << >>]
    /\ children = [t \in Tasks |-> << >>]
    /\ ntasks = 1
    /\ PQuiet

\* no function call made yet
NoUCall == [fn |-> "none"]

UQuiet == ucall = NoUCall /\ uprev = NoUCall

Init == PInit /\ TQuiet /\ UQuiet

Fit ==
    \/ FitCycleError
    \/ FitRequeue
    \/ FitSchedule
    \/ FitDrop
    \/ FitReturn

Compute ==
    \/ ComputeUnfitted
    \/ ComputeEmpty
    \/ ComputeBegin
    \/ ComputeExecute
    \/ ComputeReturn

Next ==
    \/ \E c \in 1 .. MaxWired, p \in 1 .. MaxWired : AddDependency(c, p)
    \/ \E task \in 1 .. ntasks : FitBegin(task)
    \/ Fit
    \/ Compute

Spec == Init /\ [][Next]_vars

\* the fit loop and the compute loop run to completion once started
FairSpec == Spec /\ WF_vars(Fit) /\ WF_vars(ComputeExecute \/ ComputeReturn)

\* ------------------------------------------------------------------------
\* utils.get_data_transformation_information, lines 319-352, and the
\* Transformer built from its result
\* ------------------------------------------------------------------------
\* np.arange(a, b)
Arange(a, b) == [k \in 1 .. (b - a) |-> a + k - 1]

\* lines 334-339: the number of columns of a model: ncomponents when the
\* data are compressed, else len(eval(model['columns_to_retrieve']))
ModelColumns(model) ==
    IF model.data_compression THEN model.ncomponents ELSE model.ncolumns

NextStartStuck(i_, n) == i_

\* lines 336 and 339: i_ += ...
NextStart(i_, n) == i_ + n

\* lines 333-339: new_indexes, one np.arange per model, from column i_ on
RECURSIVE NewIndexes(_, _)
NewIndexes(models, i_) ==
    IF models = << >> THEN << >>
    ELSE << Arange(i_, i_ + ModelColumns(Head(models))) >>
         \o NewIndexes(Tail(models),
                       NextStart(i_, ModelColumns(Head(models))))

\* lines 331-332, 340-342: per run key, the models' types in model order
TypesPerRun(models, nb_runs, field) ==
    [key \in { RunKey(i) : i \in 1 .. nb_runs } |->
        [m \in 1 .. Len(models) |-> models[m][field]]]

get_data_transformation_information(parameters) ==
    [indexes |-> NewIndexes(parameters.models, 0),
     offset_type_dict |->
         TypesPerRun(parameters.models, parameters.nb_runs, "offset_type"),
     duration_type_dict |->
         TypesPerRun(parameters.models, parameters.nb_runs, "duration_type"),
     \* line 346: model['scaling_type'] if model['scaling_type'] else 'identity'
     scaling_types |->
         [m \in 1 .. Len(parameters.models) |->
             IF parameters.models[m].scaling_type = "None" THEN "identity"
             ELSE parameters.models[m].scaling_type],
     centering |->
         [m \in 1 .. Len(parameters.models) |-> parameters.models[m].centering],
     order |->
         [m \in 1 .. Len(parameters.models) |-> parameters.models[m].order]]

\* eval(str(item)) of a norm order written as a numeral
EvalOrder(item) == IF item = "1" THEN 1 ELSE 2

\* Transformer.__init__, lines 88-97: the per-model fields of the
\* Transformer built from the information; order is evaluated item by item
\* unless it is 'std' or None
TransformerFields(info) ==
    [indexes |-> info.indexes,
     scaling_types |-> info.scaling_types,
     centering |-> info.centering,
     order |-> [m \in 1 .. Len(info.order) |->
                   IF info.order[m] # "std" /\ info.order[m] # "None"
                   THEN EvalOrder(info.order[m])
                   ELSE info.order[m]]]

MaxModels == 2   \* models of a configuration

\* the models of a configuration file
ModelParameters ==
    [data_compression : BOOLEAN, ncomponents : {1, 3}, ncolumns : {1, 2},
     scaling_type : {"None", "standardize"}, centering : {FALSE},
     order : {"None", "std", "2"},
     offset_type : {"word"}, duration_type : {"dur"}]

GetInformation(parameters) ==
    /\ ucall.fn = "none"
    /\ ucall' = [fn |-> "get_data_transformation_information",
                 parameters |-> parameters,
                 result |-> get_data_transformation_information(parameters),
                 transformer |->
                     TransformerFields(
                         get_data_transformation_information(parameters))]
    /\ uprev' = ucall
    /\ UNCHANGED <<pvars, tvars>>

\* ------------------------------------------------------------------------
\* utils.fetch_offsets and utils.fetch_duration called on their own
\* ------------------------------------------------------------------------
MaxRun == 11   \* run numbers

FetchCalls == {"fetch_offsets", "fetch_duration"}

FetchOffsets(offset_type, n) ==
    /\ ucall.fn \in FetchCalls \cup {"none"} /\ uprev.fn = "none"
    /\ ucall' = [fn |-> "fetch_offsets", type |-> offset_type,
                 run_index |-> RunKey(n),
                 result |-> fetch_offsets(offset_type, RunKey(n))]
    /\ uprev' = ucall
    /\ UNCHANGED <<pvars, tvars>>

FetchDuration(duration_type, n, default_size) ==
    /\ ucall.fn \in FetchCalls \cup {"none"} /\ uprev.fn = "none"
    /\ ucall' = [fn |-> "fetch_duration", type |-> duration_type,
                 run_index |-> RunKey(n),
                 result |-> fetch_duration(duration_type, RunKey(n),
                                           default_size)]
    /\ uprev' = ucall
    /\ UNCHANGED <<pvars, tvars>>

\* ------------------------------------------------------------------------
\* Pipeline.in_memory, lines 34-47
\* ------------------------------------------------------------------------
\* memory[index] of a Python list: a negative index counts from the end;
\* outside -len .. len - 1 the access raises IndexError
PyIndexOk(memory, index) == index >= 0 - Len(memory) /\ index < Len(memory)

PyItem(memory, index) ==
    IF index >= 0 THEN memory[index + 1] ELSE memory[Len(memory) + index + 1]

\* lines 44-47: the while loop from the state (result, index), and the
\* return; a task is given by its name
RECURSIVE InMemoryLoop(_, _, _, _)
InMemoryLoop(name, memory, result, index) ==
    IF ~ ((~ result) \/ index >= 0)
    THEN [status |-> "returned", value |-> result]
    ELSE IF ~ PyIndexOk(memory, index)
    THEN [status |-> "IndexError", value |-> FALSE]
    ELSE InMemoryLoop(name, memory, name = PyItem(memory, index), index - 1)

\* lines 42-43: result = False; index = len(memory) - 1
in_memory(name, memory) == InMemoryLoop(name, memory, FALSE, Len(memory) - 1)

MaxMemory == 3   \* tasks in memory

TaskNames == {"a", "b", "c"}

InMemory(name, memory) ==
    /\ ucall.fn = "none"
    /\ ucall' = [fn |-> "in_memory", task |-> name, memory |-> memory,
                 result |-> in_memory(name, memory)]
    /\ uprev' = ucall
    /\ UNCHANGED <<pvars, tvars>>

\* the model lists of a configuration file, the task lists of a memory
ModelLists == SeqsUpTo(ModelParameters, MaxModels)

Memories == SeqsUpTo(TaskNames, MaxMemory)

FunctionNext ==
    \/ /\ ucall.fn = "none"
       /\ \E models \in ModelLists :
             GetInformation([nb_runs |-> NbRuns, models |-> models])
    \/ \E offset_type \in {"word", "char"}, n \in 1 .. MaxRun :
          FetchOffsets(offset_type, n)
    \/ \E n \in 1 .. MaxRun, default_size \in 1 .. 2 :
          FetchDuration("dur", n, default_size)
    \/ \E name \in TaskNames, memory \in Memories :
          InMemory(name, memory)

\* the functions called on their own, pipeline and Transformer untouched
FunctionSpec == Init /\ [][FunctionNext]_vars

\* Task.set_terminated(True) called on a wired task by the code that
\* defines and drives the pipeline, between two passes
SetTerminated(task) ==
    /\ UNCHANGED <<tvars, uvars>>
    /\ pc = "idle"
    /\ task <= ntasks
    /\ ~ terminated[task]
    /\ terminated' = [terminated EXCEPT ![task] = TRUE]
    /\ UNCHANGED <<graphVars, fitVars, compVars, pc, calls>>

\* the pipeline with compute repeated on one fitted order
RepeatNext ==
    \/ Next
    \/ ComputeAgain

RepeatSpec == Init /\ [][RepeatNext]_vars

FlagNext ==
    \/ Next
    \/ \E task \in 1 .. MaxWired : SetTerminated(task)

\* the pipeline on tasks whose terminated flag the caller may have set
FlagSpec == Init /\ [][FlagNext]_vars

\* the elements of a set of numbers in increasing order
RECURSIVE SortedSeq(_)
SortedSeq(S) ==
    IF S = {} THEN << >>
    ELSE LET m == CHOOSE x \in S : \A y \in S : x <= y
         IN << m >> \o SortedSeq(S \ {m})

\* Graphs of NTasks tasks wired by add_input_dependency before the first
\* fit: the chain 1 -> 2 -> ... -> NTasks - 2, whose last task has the two
\* remaining tasks as children, and a root that also has the tasks of
\* extra as children, after its chain child.
WideChildren(extra) ==
    [t \in Tasks |->
        IF t = 1 THEN << 2 >> \o SortedSeq(extra)
        ELSE IF t < NTasks - 2 THEN << t + 1 >>
        ELSE IF t = NTasks - 2 THEN << NTasks - 1, NTasks >>
        ELSE << >>]

ParentsOf(ch) ==
    [t \in Tasks |-> SortedSeq({ p \in Tasks : t \in Range(ch[p]) })]

WideInit ==
    /\ \E extra \in SUBSET (3 .. NTasks) :
          /\ children = WideChildren(extra)
          /\ parents = ParentsOf(WideChildren(extra))
    /\ ntasks = NTasks
    /\ PQuiet
    /\ TQuiet
    /\ UQuiet

WideNext ==
    \/ \E task \in 1 .. ntasks : FitBegin(task)
    \/ Fit
    \/ Compute

\* the pipeline on graphs wider than the ones wired a dependency at a time
WideSpec == WideInit /\ [][WideNext]_vars

\* the Transformer, with the pipeline left as constructed
TransformerInit == PInit /\ TInit /\ UQuiet

TransformerSpec == TransformerInit /\ [][TNext]_vars

\* ------------------------------------------------------------------------
\* Graph notions used by the properties
\* ------------------------------------------------------------------------
ChildSet(S) == UNION { Range(children[t]) : t \in S }

\* tasks reachable from the tasks of S via child links (S included)
ReachSet(S) ==
    LET RECURSIVE R(_)
        R(X) == LET Y == X \cup ChildSet(X) IN IF Y = X THEN X ELSE R(Y)
    IN R(S)

Reachable(t) == ReachSet({t})

\* t lies on a dependency cycle
OnCycle(t) == t \in ReachSet(Range(children[t]))

Acyclic == \A t \in Tasks : ~ OnCycle(t)

RealParents(t) == Range(parents[t]) \cap Tasks

\* every parent of a task reachable from r is reachable from r
Closed(r) == \A t \in Reachable(r) : RealParents(t) \subseteq Reachable(r)

Positions(t) == { i \in 1 .. Len(execLog) : execLog[i] = t }

ComputeReturned == pc = "idle" /\ outcome.kind = "returned"

ExecutedOnceInOrder ==
    /\ \A t \in Reachable(root) : Cardinality(Positions(t)) = 1
    /\ Range(execLog) \subseteq Reachable(root)
    /\ \A i \in 1 .. Len(execLog) : \A p \in RealParents(execLog[i]) :
          \E j \in 1 .. (i - 1) : execLog[j] = p

ComputeEnded == pc = "idle" /\ outcome.kind # "none"

\* a compute call has ended on a pipeline that was fitted before
FitThenCompute == ComputeEnded /\ fittedMsg

\* ------------------------------------------------------------------------
\* Properties
\* ------------------------------------------------------------------------
\* C1 (as stated): for every acyclic task graph, fit(root) followed by compute
\* executes every task reachable from root exactly once, each strictly after
\* all of its parents.
C1_AnyAcyclicGraph ==
    (FitThenCompute /\ Acyclic) =>
        (outcome.kind = "returned" /\ ExecutedOnceInOrder)

\* C1 (amended): for every acyclic task graph in which every parent of a task
\* reachable from root is itself reachable from root, fit(root) followed by
\* compute executes every task reachable from root exactly once, each strictly
\* after all of its parents.
C1_ClosedAcyclicGraph ==
    (FitThenCompute /\ Acyclic /\ Closed(root)) =>
        (outcome.kind = "returned" /\ ExecutedOnceInOrder)

C1_Witness ==
    /\ ComputeReturned /\ Acyclic /\ Closed(root)
    /\ Len(execLog) = MaxWired
    /\ \E t \in Tasks : Cardinality(RealParents(t)) = 2

\* C2: when the graph has a cycle among tasks reachable from root, a running
\* fit ends (the queue becomes empty and fit returns) with the cycle error
\* logged at least once.
HasReachableCycle == root \in Tasks /\ \E t \in Reachable(root) : OnCycle(t)

C2_FitTerminatesWithError ==
    (pc = "fit" /\ HasReachableCycle) ~>
        (pc = "idle" /\ fittedMsg /\ queue = << >> /\ errors >= 1)

C2_Witness ==
    /\ pc = "idle" /\ fittedMsg /\ HasReachableCycle /\ errors >= 1
    /\ tasks # << >>

\* C3: compute on a pipeline that was never fitted, or whose fit left an empty
\* order, logs the warning, executes nothing and raises no error.
C3_ComputeNothingIsNoop ==
    (ComputeEnded /\ (~ hasTasks \/ tasks = << >>)) =>
        /\ warned
        /\ execLog = << >>
        /\ outcome.kind \notin {"AttributeError", "UnboundLocalError"}

\* C4: execute() is only called on a task none of whose parents is
\* unterminated (is_waiting() is false at every call made by compute).
C4_ExecuteOnlyWhenReady == execWaiting = {}

\* C5: when fit has returned, no task is marked terminated (all tasks start
\* with terminated = false).
C5_FitLeavesNoneTerminated ==
    (pc = "idle" /\ fittedMsg) => \A t \in Tasks : ~ terminated[t]

C5_Witness ==
    /\ pc = "idle" /\ fittedMsg /\ Len(tasks) >= 3
    /\ \A t \in Tasks : ~ terminated[t]

\* ------------------------------------------------------------------------
\* Transformer claims
\* ------------------------------------------------------------------------
\* the train list followed by the test list, of a call's inputs or results
FlatLists(d) == d.X_train \o d.X_test

\* the function calls whose split the last Transformer call made: the
\* scaling functions a scale call invoked, or the make_regressor call
SplitCalls ==
    IF tcall.fn = "scale"
    THEN { c \in Range(tcall.invs) : c.fn \in ScalingFunctions }
    ELSE IF tcall.fn = "make_regressor" /\ tcall.status = "ok"
    THEN { [X_train |-> tcall.X_train, X_test |-> tcall.X_test,
            result |-> tcall.result] }
    ELSE {}

\* C6: every result of make_regressor, standardize, identity and normalize
\* is split back with the sizes of the input lists: as many train outputs
\* as train inputs, as many test outputs as test inputs, an empty X_test
\* included. (The sizes alone; they fail for an empty X_test.)
C6_SplitSizesPreserved ==
    \A c \in SplitCalls :
        /\ Len(c.result.X_train) = Len(c.X_train)
        /\ Len(c.result.X_test) = Len(c.X_test)

\* C7: identity called with centering disabled returns X_train and X_test
\* as it received them, list for list and element for element.
C7_IdentityIsIdentity ==
    tcall.fn = "scale" =>
        \A m \in 1 .. Len(tcall.invs) :
            (tcall.invs[m].fn = "identity" /\ ~ tcall.invs[m].centering) =>
                /\ tcall.invs[m].result.X_train = tcall.invs[m].X_train
                /\ tcall.invs[m].result.X_test = tcall.invs[m].X_test

\* the positions of the train+test list where two calls got the same matrix
SamePositions(a, b) ==
    { i \in 1 .. Len(FlatLists(a)) : FlatLists(a)[i] = FlatLists(b)[i] }

TwoScaleCalls == tprev.fn = "scale" /\ tcall.fn = "scale"

\* C8: of two scale calls on one configuration that differ in one matrix
\* of the train+test list, every scaling function (identity, standardize,
\* normalize) returns the same matrix at every position where it received
\* the same matrix, and so does scale itself.
C8_ScalingIndependentPerMatrix ==
    TwoScaleCalls =>
        /\ Len(tcall.invs) = Len(tprev.invs)
        /\ \A m \in 1 .. Len(tcall.invs) :
               \A i \in SamePositions(tprev.invs[m], tcall.invs[m]) :
                   FlatLists(tprev.invs[m].result)[i]
                       = FlatLists(tcall.invs[m].result)[i]
        /\ (tprev.status = "ok" /\ tcall.status = "ok") =>
               \A i \in SamePositions(tprev, tcall) :
                   FlatLists(tprev.result)[i] = FlatLists(tcall.result)[i]

\* two successful scale calls with a standardize model, a train and a test
\* matrix, differing in one matrix and agreeing in another
C8_Witness ==
    /\ TwoScaleCalls
    /\ tprev.status = "ok" /\ tcall.status = "ok"
    /\ \E m \in 1 .. Len(tcall.invs) : tcall.invs[m].fn = "standardize"
    /\ Len(tcall.X_train) >= 1 /\ Len(tcall.X_test) >= 1
    /\ SamePositions(tprev, tcall) # {}
    /\ SamePositions(tprev, tcall) # 1 .. Len(FlatLists(tcall))
    /\ FlatLists(tprev.result) # FlatLists(tcall.result)

\* C9: the bucket is empty after every call to scale, a failing call
\* included, so that the next call starts with an empty bucket.
C9_BucketEmptyAfterScale == tcall.fn = "scale" => bucket = << >>

\* the columns make_regressor owes for matrix M of run number run and the
\* model i: per column of the model's slice, the kernel's regressors of the
\* amplitudes left after dropna, with the onsets, durations and frame times
\* of the key 'run<run + 1>'
ExpectedBlock(self, M, run, i) ==
    LET key == RunKey(run + 1)
        df == DropNa(Slice(M, self.indexes[i]))
    IN Flatten([c \in 1 .. Len(self.indexes[i]) |->
           [j \in 1 .. HrfColumns(self.hrf) |->
               [amplitudes |-> Column(df, c),
                onsets |-> << self.offset_type_dict[key][i], key[Len(key)] >>,
                durations |-> fetch_duration(self.duration_type_dict[key][i],
                                             key, Len(df)),
                frames |-> key,
                regressor |-> j]]])

RegressorReturned == tcall.fn = "make_regressor" /\ tcall.status = "ok"

\* C10: the k-th matrix make_regressor returns is the horizontal
\* concatenation, in model order, of the blocks computed from the k-th
\* input matrix with the key 'run<runs[k] + 1>' and each model's columns;
\* it has nscans[that key] rows whatever the number of event rows, and at
\* least one column per input column.
C10_RegressorsAlignedPerRun ==
    RegressorReturned =>
        LET inp == FlatLists(tcall)
            runs == tcall.run_train \o tcall.run_test
            out == FlatLists(tcall.result)
        IN /\ Len(out) = Len(inp)
           /\ \A k \in 1 .. Len(inp) :
                  /\ out[k].rows = cfg.nscans[RunKey(runs[k] + 1)]
                  /\ out[k].cols =
                         Flatten([i \in 1 .. Len(cfg.indexes) |->
                                     ExpectedBlock(cfg, inp[k], runs[k], i)])
                  /\ Len(out[k].cols) >= NCols(inp[k])

\* two models, two matrices of different runs and different numbers of
\* event rows, one of them with a missing value
C10_Witness ==
    /\ RegressorReturned
    /\ Len(cfg.indexes) = 2
    /\ tcall.X_train = << MatD, MatA >>
    /\ tcall.run_train = << 0, 1 >>
    /\ Len(tcall.X_test) = 1
    /\ Len(tcall.result.X_train) = 2
    /\ tcall.result.X_train[1].rows = 3
    /\ tcall.result.X_train[2].rows = 4
    /\ Len(tcall.result.X_train[1].cols) = 2


\* ------------------------------------------------------------------------
\* Pipeline claims on the cycle error and the traversal
\* ------------------------------------------------------------------------
\* the running fit has reported the cycle error
ErrorReported == pc = "fit" /\ errors >= 1

\* C12: once fit has reported the cycle error, no further task is appended
\* to the execution order, and the fit does not end with the report that
\* the pipeline was fitted without error.
C12_CycleErrorAbortsFit ==
    /\ [][ErrorReported => tasks' = tasks]_vars
    /\ [](errors >= 1 => ~ fittedMsg)


\* the step of fit that appends the popped task to the order
Appends == pc = "fit" /\ Len(tasks') = Len(tasks) + 1

\* C13: fit traverses depth-first: after a task with children is appended
\* to the order, the next task popped from the queue is one of its
\* children, not a task that was in the queue before.
C13_DepthFirst ==
    [][(Appends /\ children[PopValue(queue)] # << >>)
          => PopValue(queue') \in Range(children[PopValue(queue)])]_vars


\* a fit has returned whose root has no parent among the wired tasks
FittedFromFreeRoot == pc = "idle" /\ fittedMsg /\ RealParents(root) = {}

\* C14: the order fit computes does not depend on the terminated flags the
\* tasks have when fit is called: as with all flags false, a root without
\* parents is scheduled, first, whatever its flag was.
C14_OrderIgnoresInitialFlags ==
    FittedFromFreeRoot => (tasks # << >> /\ tasks[1] = root)


\* C16: on an acyclic graph whose root has no parents and in which every
\* parent of a reachable task is reachable, fit never reports the cycle
\* error.
C16_NoFalseCycleError ==
    (root \in Tasks /\ Acyclic /\ Closed(root) /\ RealParents(root) = {})
        => errors = 0


\* the synthetic input tasks among the parents of a task
SyntheticParents(t) == Range(parents[t]) \ Tasks

\* a compute call on a fitted, non-empty order has begun or returned
ComputeRan == pc = "compute" \/ outcome.kind = "returned"

\* C17: whatever the number of compute calls on a fitted pipeline, the
\* first task of the order has exactly one synthetic input task among its
\* parents, the one of the most recent compute call.
C17_OneSyntheticParent ==
    ComputeRan => SyntheticParents(tasks[1]) = { Synth(nsynth) }


\* ------------------------------------------------------------------------
\* Claims on the functions called on their own
\* ------------------------------------------------------------------------
InformationReturned == ucall.fn = "get_data_transformation_information"

\* the sum of the models' column counts
RECURSIVE TotalColumns(_)
TotalColumns(models) ==
    IF models = << >> THEN 0
    ELSE ModelColumns(Head(models)) + TotalColumns(Tail(models))

\* C11: the Transformer configuration built from
\* get_data_transformation_information has as many indexes as scaling
\* types, centerings and orders, and the models' column-index sets are
\* pairwise disjoint and together the range 0 .. total - 1, total being
\* the sum of the models' column counts.
C11_IndexesPartitionColumns ==
    InformationReturned =>
        LET t == ucall.transformer
            total == TotalColumns(ucall.parameters.models)
        IN /\ Len(t.indexes) = Len(t.scaling_types)
           /\ Len(t.scaling_types) = Len(t.centering)
           /\ Len(t.centering) = Len(t.order)
           /\ \A i \in 1 .. Len(t.indexes) : \A j \in 1 .. Len(t.indexes) :
                  i # j => Range(t.indexes[i]) \cap Range(t.indexes[j]) = {}
           /\ UNION { Range(t.indexes[i]) : i \in 1 .. Len(t.indexes) }
                  = 0 .. total - 1

\* two models of different widths, one compressed and one not
C11_Witness ==
    /\ InformationReturned
    /\ Len(ucall.parameters.models) = 2
    /\ ucall.parameters.models[1].data_compression
    /\ ~ ucall.parameters.models[2].data_compression
    /\ ucall.transformer.indexes = << << 0, 1, 2 >>, << 3, 4 >> >>
    /\ ucall.parameters.models[1].order = "std"
    /\ ucall.parameters.models[2].order = "2"
    /\ ucall.transformer.order[2] = 2

\* the characters of a path between '_run' and '.csv'
PathRun(path) == << path[2] >>

\* two lookups of one function with the same type label
TwoLookups ==
    /\ ucall.fn \in FetchCalls
    /\ uprev.fn = ucall.fn
    /\ uprev.type = ucall.type

\* C18: fetch_offsets and fetch_duration resolve a run key to the path
\* ending in '_run<i>.csv' for the key's own number i, so that two
\* distinct run keys give two distinct paths.
C18_LookupKeyedByFullRun ==
    /\ ucall.fn \in FetchCalls =>
           PathRun(ucall.result.path) = ucall.run_index
    /\ (TwoLookups /\ uprev.run_index # ucall.run_index) =>
           uprev.result.path # ucall.result.path

\* C19: in_memory returns, without raising, whether some task of memory
\* has the name of the task, for every list memory, the empty one included.
C19_InMemoryReturnsMembership ==
    ucall.fn = "in_memory" =>
        /\ ucall.result.status = "returned"
        /\ ucall.result.value = (ucall.task \in Range(ucall.memory))


\* the models whose scaling type is not in the registry
UnknownModels == { i \in 1 .. Len(cfg.scaling_types) :
                      cfg.scaling_types[i] \notin ScalingFunctions }

\* C15: scale resolves a scaling type within the registry {identity,
\* standardize, normalize} only: with any other name, the name of another
\* attribute of the Transformer included, the call fails at the lookup
\* for the first such model, and no function is invoked under that name.
C15_LookupWithinRegistry ==
    (tcall.fn = "scale" /\ UnknownModels # {}) =>
        /\ tcall.status = "AttributeError"
        /\ \A m \in 1 .. Len(tcall.invs) : tcall.invs[m].fn \in ScalingFunctions
        /\ \A i \in UnknownModels : Len(tcall.invs) < i

============================================================================
